---------------------------- MODULE Spec2Model ----------------------------
(***************************************************************************)
(* The transfer pipeline of libdlt: Session.upload / Session.download with *)
(* their cooperative worker tasks (libdlt/sessions.py) and the two bundled *)
(* schedules (libdlt/schedule.py).                                         *)
(*                                                                         *)
(* A worker is an asyncio task: it runs without interruption between two   *)
(* awaits that really suspend (run_in_executor); every action below is one *)
(* such uninterrupted stretch.  asyncio.Queue.get on a non-empty queue and *)
(* asyncio.Queue.put on an unbounded queue do not suspend.                 *)
(***************************************************************************)
EXTENDS Integers, Sequences, FiniteSets, Bags, TLC

\* libdlt/schedule.py: DOWNLOAD_RETRY
DOWNLOAD_RETRY == 3

\* Bounds of the model.
BlockSize == 2
MaxSize == 3
MaxCopies == 2
MaxThreads == 2
NumDepots == 2
MaxUploads == 1
MaxDownloads == 1
MaxTries == 4
MaxFails == 3
MaxExtents == 2
MaxGets == 7
SchedDepots == 3

VARIABLES
    depots,     \* Session._depots: depot key -> enabled
    threads,    \* Session._threads
    fsize,      \* size of the local file handed to upload (os.stat)
    jobs,       \* Session._jobs, the asyncio.Queue
    record,     \* len(Session._record)
    phase,      \* "idle", "upload", "download", "download1", "hung"
    calls,      \* the upload and download calls made on the session so far
    cyc,        \* BaseUploadSchedule._ls: index of the next key of the cycle
    ls,         \* BaseDownloadSchedule._ls: <<[k, slots]>> in key insertion order
    ex,         \* the exnode of the running transfer
    wk,         \* the worker tasks: rank -> local variables
    offset1,    \* the offset of the single-threaded download loop
    dest,       \* the destination file of download: position -> byte (0: hole)
    registry,   \* the exnodes committed to the runtime
    failing,    \* the depots whose reads fail during the running download
    result,     \* what the last upload/download call gave its caller
    hist,       \* history of the running transfer (not program state)
    commits,    \* the objects inserted into the runtime, in order of insertion
    sched,      \* a schedule object driven directly: its twin that had
                \* setSource called twice, and what the last get calls returned
    ceph,       \* a Ceph ProtocolService: cluster_cache and the calls in flight
    gen         \* the arguments of a _generate_jobs call made on its own

vars == <<depots, threads, fsize, jobs, record, phase, calls, cyc,
          ls, ex, wk, offset1, dest, registry, failing, result, hist,
          commits, sched, ceph, gen>>

Min(a, b) == IF a < b THEN a ELSE b

-----------------------------------------------------------------------------
(* Values *)

NoJob == [offset |-> 0, size |-> 0, tries |-> 0, xfer |-> 0]
NoAlloc == [offset |-> 0, size |-> 0, location |-> 0, data |-> <<>>]
NoExnode == [size |-> 0, extents |-> <<>>]
IdleWorker == [pc |-> "idle", job |-> NoJob, data |-> <<>>, depot |-> 0,
               alloc |-> NoAlloc, allocs |-> <<>>, bytes |-> 0]
NoResult == [kind |-> "none", bytes |-> 0, ex |-> NoExnode]
NoHist == [copies |-> 0, fails |-> 0, schedFail |-> FALSE, dropped |-> FALSE,
           stale |-> FALSE, maxGets |-> 0, logging |-> FALSE, log |-> <<>>,
           accepted |-> EmptyBag]

\* An entry of the log of a download: what was done ("get", "put", "read",
\* "ok", "fail", "write", "none"), for which job, with which allocation.
Ev(kind, offset, end, alloc) ==
    [ev |-> kind, offset |-> offset, end |-> end, alloc |-> alloc]

\* The log is kept only where it is looked at (hist.logging).
Logged(h, evs) == IF h.logging THEN [h EXCEPT !.log = @ \o evs] ELSE h

NoGet == [err |-> FALSE, alloc |-> NoAlloc]
NoSched == [mode |-> "none", again |-> FALSE, ls |-> <<>>, cyc |-> 1, n |-> 0,
            offset |-> 0, one |-> NoGet, two |-> NoGet, ret |-> <<>>, ret2 |-> <<>>]
NoCeph == [cache |-> <<>>, made |-> <<>>, tasks |-> <<>>]
NoGen == [step |-> 1, size |-> 0, copies |-> 1, done |-> FALSE]

\* The byte at position i (0-based) of the local file.
FileByte(i) == i + 1

\* fh.seek(offset); fh.read(size) on a file of fsize bytes.
FileRead(offset, size) ==
    [i \in 1..(IF offset < fsize THEN Min(size, fsize - offset) ELSE 0)
        |-> FileByte(offset + i - 1)]

EmptyDest == [i \in 0..(MaxSize - 1) |-> 0]

-----------------------------------------------------------------------------
(* Session._generate_jobs *)

RECURSIVE Repeat(_, _)
Repeat(x, n) == IF n = 0 THEN <<>> ELSE <<x>> \o Repeat(x, n - 1)

\* The last chunk given the size that is left of the file.
RECURSIVE ChunkJobsShort(_, _, _, _, _)
ChunkJobsShort(chunk, step, size, n, x) ==
    IF chunk >= size THEN <<>>
    ELSE Repeat([offset |-> chunk, size |-> Min(step, size - chunk), tries |-> 0, xfer |-> x], n)
         \o ChunkJobsShort(chunk + step, step, size, n, x)

\* for chunk in range(0, size, step): for _ in range(copies):
\* self._jobs.put_nowait((chunk, step))
RECURSIVE ChunkJobs(_, _, _, _, _)
ChunkJobs(chunk, step, size, n, x) ==
    IF chunk >= size THEN <<>>
    ELSE Repeat([offset |-> chunk, size |-> step, tries |-> 0, xfer |-> x], n)
         \o ChunkJobs(chunk + step, step, size, n, x)

GenerateJobs(step, size, n, x) == ChunkJobs(0, step, size, n, x)

-----------------------------------------------------------------------------
(* BaseUploadSchedule *)

NDepots == Cardinality(DOMAIN depots)

\* get: the next key of cycle(source.keys()) whose depot is enabled.  With no
\* enabled depot the for loop over the cycle never ends.
RECURSIVE CycleGet(_, _)
CycleGet(pos, k) ==
    IF k = 0 THEN [hang |-> TRUE, depot |-> 0, next |-> pos]
    ELSE IF depots[pos] THEN [hang |-> FALSE, depot |-> pos, next |-> (pos % NDepots) + 1]
    ELSE CycleGet((pos % NDepots) + 1, k - 1)

\* The cycle without the test of enabled.
UploadScheduleGetAny(pos) == [hang |-> FALSE, depot |-> pos, next |-> (pos % NDepots) + 1]

UploadScheduleGet(pos) == CycleGet(pos, NDepots)


-----------------------------------------------------------------------------
(* The protocol driver (libdlt.protocol.<kind>.factory), by its contract:  *)
(* the allocation holds the data at the job's offset on the chosen depot.  *)

MakeAllocation(data, offset, d) ==
    [offset |-> offset, size |-> Len(data), location |-> d, data |-> data]

-----------------------------------------------------------------------------
(* Session._upload_chunks *)

\* while not self._jobs.empty(): offset, size = await self._jobs.get();
\* fh.seek(offset); the read is handed to the executor.  s = [jobs, wk].
UploadLoop(s, w) ==
    IF s.jobs = <<>>
    THEN [s EXCEPT !.wk[w].pc = "done"]
    ELSE [s EXCEPT !.jobs = Tail(@),
                   !.wk[w].pc = "read",
                   !.wk[w].job = Head(s.jobs)]

\* asyncio.gather: the tasks take their first steps in rank order before any
\* executor result is delivered.
RECURSIVE UploadStartWorkers(_, _)
UploadStartWorkers(s, w) ==
    IF w > threads THEN s ELSE UploadStartWorkers(UploadLoop(s, w), w + 1)

Bump(n) == Min(n + 1, MaxTries)

\* len(self._depots) < copies: print and return (None).
UploadTooFewDepots(c) ==
    /\ phase = "idle" /\ calls.up < MaxUploads
    /\ NDepots < c
    /\ calls' = [calls EXCEPT !.up = @ + 1]
    /\ result' = [kind |-> "None", bytes |-> 0, ex |-> NoExnode]
    /\ hist' = [NoHist EXCEPT !.copies = c, !.stale = (jobs # <<>>)]
    /\ UNCHANGED <<depots, threads, fsize, jobs, record, phase, cyc, ls, ex, wk, offset1, dest, registry, failing,
                   commits, sched, ceph, gen>>

\* upload up to the first suspension of every worker.
UploadStart(c) ==
    /\ phase = "idle" /\ calls.up < MaxUploads
    /\ ~(NDepots < c)
    /\ LET s0 == [jobs |-> jobs \o GenerateJobs(BlockSize, fsize, c, calls.up + calls.down + 1),
                  wk |-> [w \in 1..threads |-> IdleWorker]]
           s1 == UploadStartWorkers(s0, 1)
       IN /\ jobs' = s1.jobs
          /\ wk' = s1.wk
    /\ calls' = [calls EXCEPT !.up = @ + 1]
    /\ cyc' = 1
    /\ ex' = [size |-> fsize, extents |-> <<>>]
    /\ phase' = "upload"
    /\ result' = NoResult
    /\ hist' = [NoHist EXCEPT !.copies = c, !.stale = (jobs # <<>>)]
    /\ UNCHANGED <<depots, threads, fsize, record, ls, offset1, dest, registry, failing,
                   commits, sched, ceph, gen>>

\* The awaited fh.read returned; schedule.get names a depot and
\* makeAllocation is handed to the executor.  (A schedule of the caller's is
\* taken to cycle like the bundled one when it does not raise.)
UploadSchedule(w) ==
    /\ phase = "upload"
    /\ wk[w].pc = "read"
    /\ LET g == UploadScheduleGet(cyc)
       IN /\ ~g.hang
          /\ cyc' = g.next
          /\ wk' = [wk EXCEPT ![w].pc = "alloc",
                              ![w].data = FileRead(wk[w].job.offset, wk[w].job.size),
                              ![w].depot = g.depot,
                              ![w].job.tries = Bump(@)]
    /\ UNCHANGED <<depots, threads, fsize, jobs, record, phase, calls, ls, ex, offset1, dest, registry, failing, result, hist,
                   commits, sched, ceph, gen>>

\* BaseUploadSchedule.get with no enabled depot: the loop over the cycle never
\* ends, and with it the event loop.
UploadScheduleHang(w) ==
    /\ phase = "upload"
    /\ wk[w].pc = "read"
    /\ UploadScheduleGet(cyc).hang
    /\ phase' = "hung"
    /\ UNCHANGED <<depots, threads, fsize, jobs, record, calls, cyc,
                   ls, ex, wk, offset1, dest, registry, failing, result, hist,
                   commits, sched, ceph, gen>>

\* schedule.get (a schedule of the caller's) raises:
\* except Exception: log.warn(...); continue.
UploadScheduleRaises(w) ==
    /\ phase = "upload"
    /\ wk[w].pc = "read"
    /\ LET s1 == UploadLoop([jobs |-> jobs, wk |-> [wk EXCEPT ![w].job = NoJob]], w)
       IN /\ jobs' = s1.jobs
          /\ wk' = s1.wk
    /\ hist' = [hist EXCEPT !.schedFail = TRUE, !.dropped = TRUE]
    /\ UNCHANGED <<depots, threads, fsize, record, phase, calls, cyc,
                   ls, ex, offset1, dest, registry, failing, result,
                   commits, sched, ceph, gen>>

\* makeAllocation returned: record, allocs.append(alloc), uploaded += len(data).
UploadAllocated(w) ==
    /\ phase = "upload"
    /\ wk[w].pc = "alloc"
    /\ LET alloc == MakeAllocation(wk[w].data, wk[w].job.offset, wk[w].depot)
           w1 == [wk EXCEPT ![w].allocs = Append(@, alloc),
                            ![w].bytes = @ + Len(wk[w].data),
                            ![w].job = NoJob, ![w].data = <<>>, ![w].depot = 0]
           s1 == UploadLoop([jobs |-> jobs, wk |-> w1], w)
       IN /\ jobs' = s1.jobs
          /\ wk' = s1.wk
    /\ record' = record + 1
    /\ hist' = [hist EXCEPT !.accepted = @ (+) SetToBag(
                    {MakeAllocation(wk[w].data, wk[w].job.offset, wk[w].depot)})]
    /\ UNCHANGED <<depots, threads, fsize, phase, calls, cyc, ls, ex,
                   offset1, dest, registry, failing, result,
                   commits, sched, ceph, gen>>

\* except AllocationError: self._jobs.put_nowait((offset, size)); continue.
AllocationErrorRequeue(w) ==
    /\ phase = "upload"
    /\ wk[w].pc = "alloc"
    /\ LET w1 == [wk EXCEPT ![w].job = NoJob, ![w].data = <<>>, ![w].depot = 0]
           s1 == UploadLoop([jobs |-> Append(jobs, wk[w].job), wk |-> w1], w)
       IN /\ jobs' = s1.jobs
          /\ wk' = s1.wk
    /\ hist' = [hist EXCEPT !.fails = Min(@ + 1, MaxFails)]
    /\ UNCHANGED <<depots, threads, fsize, record, phase, calls, cyc,
                   ls, ex, offset1, dest, registry, failing, result,
                   commits, sched, ceph, gen>>

\* The driver fails at most MaxFails times in one transfer.
UploadAllocationError(w) ==
    /\ hist.fails < MaxFails
    /\ AllocationErrorRequeue(w)

\* makeAllocation raises anything else: the task raises, gather raises, and
\* upload raises to its caller.  The other tasks are left behind.
UploadFatal(w) ==
    /\ phase = "upload"
    /\ wk[w].pc = "alloc"
    /\ phase' = "idle"
    /\ wk' = [v \in 1..threads |-> IdleWorker]
    /\ result' = [kind |-> "raised", bytes |-> 0, ex |-> NoExnode]
    /\ ex' = NoExnode
    /\ cyc' = 1
    /\ UNCHANGED <<depots, threads, fsize, jobs, record, calls, ls, offset1, dest,
                   registry, failing, hist,
                   commits, sched, ceph, gen>>

-----------------------------------------------------------------------------
(* Session.upload after the workers *)

RECURSIVE GatherAllocs(_)
GatherAllocs(w) == IF w > threads THEN <<>> ELSE wk[w].allocs \o GatherAllocs(w + 1)

RECURSIVE GatherBytes(_)
GatherBytes(w) == IF w > threads THEN 0 ELSE wk[w].bytes + GatherBytes(w + 1)

\* The allocations inserted before the exnode they belong to.
InsertAllocsFirst(id, allocs) ==
    [i \in 1..Len(allocs) |->
        [kind |-> "extent", id |-> 0, parent |-> id, alloc |-> allocs[i]]]
    \o <<[kind |-> "exnode", id |-> id, parent |-> 0, alloc |-> NoAlloc]>>

\* self._runtime.insert(ex, commit=True); for alloc in all_allocs:
\* alloc.parent = ex; ex.extents.append(alloc); self._runtime.insert(alloc).
InsertAll(id, allocs) ==
    <<[kind |-> "exnode", id |-> id, parent |-> 0, alloc |-> NoAlloc]>>
    \o [i \in 1..Len(allocs) |->
           [kind |-> "extent", id |-> 0, parent |-> id, alloc |-> allocs[i]]]

\* gather returned: insert the exnode, attach every allocation, return the
\* UploadResult.
UploadReturn ==
    /\ phase = "upload"
    /\ \A w \in 1..threads : wk[w].pc = "done"
    /\ LET node == [ex EXCEPT !.extents = GatherAllocs(1)]
       IN /\ registry' = Append(registry, node)
          /\ result' = [kind |-> "UploadResult", bytes |-> GatherBytes(1), ex |-> node]
          /\ commits' = commits \o InsertAll(Len(registry) + 1, node.extents)
    /\ phase' = "idle"
    /\ wk' = [v \in 1..threads |-> IdleWorker]
    /\ ex' = NoExnode
    /\ cyc' = 1
    /\ UNCHANGED <<depots, threads, fsize, jobs, record, calls, ls, offset1, dest,
                   failing, hist, sched, ceph, gen>>

-----------------------------------------------------------------------------
(* BaseDownloadSchedule *)

Max(a, b) == IF a < b THEN b ELSE a

NoKey(chunks, k) == \A i \in 1..Len(chunks) : chunks[i].k # k

KeyIndex(chunks, k) == CHOOSE i \in 1..Len(chunks) : chunks[i].k = k

\* The slot put at the head of the list of its offset.
AddSlotFirst(chunks, ext) ==
    LET slot == [retry |-> 0, alloc |-> ext, gets |-> 0]
    IN IF NoKey(chunks, ext.offset)
       THEN Append(chunks, [k |-> ext.offset, slots |-> <<slot>>])
       ELSE [chunks EXCEPT ![KeyIndex(chunks, ext.offset)].slots = <<slot>> \o @]

\* chunks[ext.offset].append({"retry": 0, "alloc": ext}); a new key goes last.
\* gets counts the returns of the slot (history).
AddSlot(chunks, ext) ==
    LET slot == [retry |-> 0, alloc |-> ext, gets |-> 0]
    IN IF NoKey(chunks, ext.offset)
       THEN Append(chunks, [k |-> ext.offset, slots |-> <<slot>>])
       ELSE [chunks EXCEPT ![KeyIndex(chunks, ext.offset)].slots = Append(@, slot)]

RECURSIVE SetSourceFrom(_, _)
SetSourceFrom(chunks, source) ==
    IF source = <<>> THEN chunks
    ELSE SetSourceFrom(AddSlot(chunks, Head(source)), Tail(source))

SetSourceKeep(source) == SetSourceFrom(sched.ls, source)

\* self._ls = defaultdict(list), then one slot per extent of the source.
SetSource(source) == SetSourceFrom(<<>>, source)

RemoveAt(s, j) == SubSeq(s, 1, j - 1) \o SubSeq(s, j + 1, Len(s))

\* The retry test off by one: a slot whose count reached the limit goes back
\* once more.
ReinsertLate(slot, rest) ==
    IF slot.retry <= DOWNLOAD_RETRY
    THEN <<[slot EXCEPT !.retry = @ + 1, !.gets = @ + 1]>> \o rest
    ELSE rest

\* The slot put back at the tail, where the next pop finds it again.
ReinsertAtTail(slot, rest) ==
    IF slot.retry < DOWNLOAD_RETRY
    THEN rest \o <<[slot EXCEPT !.retry = @ + 1, !.gets = @ + 1]>>
    ELSE rest

\* The slot put back at the head with its count as it was.
ReinsertUncounted(slot, rest) ==
    IF slot.retry < DOWNLOAD_RETRY
    THEN <<[slot EXCEPT !.gets = @ + 1]>> \o rest
    ELSE rest

\* The slot put back at the head whatever its count.
ReinsertForever(slot, rest) == <<slot>> \o rest

\* if chunk['retry'] < DOWNLOAD_RETRY: chunk['retry'] += 1; insert(0, chunk)
Reinsert(slot, rest) ==
    IF slot.retry < DOWNLOAD_RETRY
    THEN <<[slot EXCEPT !.retry = @ + 1, !.gets = @ + 1]>> \o rest
    ELSE rest

\* The test of the scan with >= for >: a slot that ends at the offset passes.
CoversEnd(slot, offset) == slot.alloc.size + slot.alloc.offset >= offset

\* The test of the scan without the size: every slot of a lower key passes.
CoversFrom(slot, offset) == slot.alloc.offset < offset

\* if ext['alloc'].size + ext['alloc'].offset > offset
Covers(slot, offset) == slot.alloc.size + slot.alloc.offset > offset

\* The (key, index) pairs the scan of the else branch looks at, and the first
\* of them in the order of the two loops.
ScanHits(chunks, offset) ==
    {p \in UNION {{<<i, j>> : j \in 1..Len(chunks[i].slots)} : i \in 1..Len(chunks)} :
        /\ chunks[p[1]].k < offset
        /\ Covers(chunks[p[1]].slots[p[2]], offset)}

FirstHit(hits) ==
    CHOOSE p \in hits : \A q \in hits : p[1] < q[1] \/ (p[1] = q[1] /\ p[2] <= q[2])

\* get({"offset": offset}): [err, alloc, ls, gets]
DownloadScheduleGet(chunks, offset) ==
    IF ~NoKey(chunks, offset) /\ chunks[KeyIndex(chunks, offset)].slots # <<>>
    THEN LET i == KeyIndex(chunks, offset)
             slots == chunks[i].slots
             chunk == slots[Len(slots)]
         IN [err |-> FALSE, alloc |-> chunk.alloc, gets |-> chunk.gets + 1,
             ls |-> [chunks EXCEPT ![i].slots =
                        Reinsert(chunk, SubSeq(slots, 1, Len(slots) - 1))]]
    ELSE LET hits == ScanHits(chunks, offset)
         IN IF hits = {}
            THEN [err |-> TRUE, alloc |-> NoAlloc, gets |-> 0, ls |-> chunks]
            ELSE LET p == FirstHit(hits)
                     slots == chunks[p[1]].slots
                     chunk == slots[p[2]]
                 IN [err |-> FALSE, alloc |-> chunk.alloc, gets |-> chunk.gets + 1,
                     ls |-> [chunks EXCEPT ![p[1]].slots =
                                Reinsert(chunk, RemoveAt(slots, p[2]))]]

-----------------------------------------------------------------------------
(* Session._download_chunks *)

\* The write without the seek: every chunk lands at the start of the file.
WriteAtStart(file, offset, data) ==
    [i \in DOMAIN file |-> IF i < Len(data) THEN data[i + 1] ELSE file[i]]

\* fh.seek(offset); fh.write(data)
WriteAt(file, offset, data) ==
    [i \in DOMAIN file |->
        IF offset <= i /\ i < offset + Len(data) THEN data[i - offset + 1] ELSE file[i]]

\* service.read of an allocation, by the driver's contract: the stored bytes.
ReadFails(alloc) == alloc.location \in failing

\* The remainder put for every allocation, also one that reaches the end.
RemainderAlways(job, alloc) == <<[job EXCEPT !.offset = @ + alloc.size]>>

RemainderSame(job, alloc) ==
    IF alloc.offset + alloc.size < job.size THEN <<job>> ELSE <<>>

\* if alloc.offset + alloc.size < end: put((offset + alloc.size, end))
Remainder(job, alloc) ==
    IF alloc.offset + alloc.size < job.size
    THEN <<[job EXCEPT !.offset = @ + alloc.size]>>
    ELSE <<>>

RECURSIVE PutEvents(_)
PutEvents(js) ==
    IF js = <<>> THEN <<>>
    ELSE <<Ev("put", Head(js).offset, Head(js).size, NoAlloc)>> \o PutEvents(Tail(js))

\* while not self._jobs.empty(): get_nowait; schedule.get (IndexError: warn,
\* continue); put the remainder; the read is handed to the executor.
\* s = [jobs, wk, ls, hist].
\* The one element of a set of one element.
Only(S) == CHOOSE x \in S : TRUE

\* IndexError: log.warn(exp); continue.
JobDropped(s, job) ==
    [s EXCEPT !.jobs = Tail(@),
              !.hist = Logged([@ EXCEPT !.dropped = TRUE],
                              <<Ev("none", job.offset, job.size, NoAlloc)>>)]

\* get gave the allocation g.alloc for the job: the remainder is put, the
\* read is handed to the executor.
JobTaken(s, w, job, g) ==
    [s EXCEPT !.jobs = Tail(@) \o Remainder(job, g.alloc),
              !.ls = g.ls,
              !.hist = Logged([@ EXCEPT !.maxGets = Max(@, g.gets)],
                              <<Ev("get", job.offset, job.size, g.alloc)>>
                              \o PutEvents(Remainder(job, g.alloc))
                              \o <<Ev("read", job.offset, job.size, g.alloc)>>),
              !.wk[w].pc = "read",
              !.wk[w].job = job,
              !.wk[w].alloc = g.alloc]

RECURSIVE DownloadLoop(_, _)
DownloadLoop(s, w) ==
    IF s.jobs = <<>>
    THEN [s EXCEPT !.wk[w].pc = "done"]
    ELSE Only({IF g.err
               THEN Only({DownloadLoop(s1, w) : s1 \in {JobDropped(s, Head(s.jobs))}})
               ELSE JobTaken(s, w, Head(s.jobs), g) :
                   g \in {DownloadScheduleGet(s.ls, Head(s.jobs).offset)}})

RECURSIVE DownloadStartWorkers(_, _)
DownloadStartWorkers(s, w) ==
    IF w > threads THEN s
    ELSE Only({DownloadStartWorkers(s1, w + 1) : s1 \in {DownloadLoop(s, w)}})

DownloadJob(size, x) == [offset |-> 0, size |-> size, tries |-> 0, xfer |-> x]

\* download with threads > 1, up to the first suspension of every worker
\* (each opens the destination 'wb').
DownloadStart(href, fail) ==
    /\ phase = "idle" /\ calls.down < MaxDownloads
    /\ threads > 1
    /\ href \in 1..Len(registry)
    /\ LET node == registry[href]
           s0 == [jobs |-> Append(jobs, DownloadJob(node.size, calls.up + calls.down + 1)),
                  wk |-> [w \in 1..threads |-> IdleWorker],
                  ls |-> SetSource(node.extents),
                  hist |-> [NoHist EXCEPT !.stale = (jobs # <<>>), !.logging = hist.logging]]
       IN \E s1 \in {DownloadStartWorkers(s0, 1)} :
          /\ ex' = node
          /\ jobs' = s1.jobs
          /\ wk' = s1.wk
          /\ ls' = s1.ls
          /\ hist' = s1.hist
    /\ failing' = fail
    /\ dest' = EmptyDest
    /\ calls' = [calls EXCEPT !.down = @ + 1]
    /\ phase' = "download"
    /\ result' = NoResult
    /\ UNCHANGED <<depots, threads, fsize, record, cyc, offset1, registry,
                   commits, sched, ceph, gen>>

\* The awaited service.read returned data: record, seek, the write is handed
\* to the executor.
DownloadRead(w) ==
    /\ phase = "download"
    /\ wk[w].pc = "read"
    /\ ~ReadFails(wk[w].alloc)
    /\ wk[w].alloc.data # <<>>
    /\ wk' = [wk EXCEPT ![w].pc = "write", ![w].data = wk[w].alloc.data]
    /\ record' = record + 1
    /\ hist' = Logged(hist, <<Ev("ok", wk[w].job.offset, wk[w].job.size, wk[w].alloc)>>)
    /\ UNCHANGED <<depots, threads, fsize, jobs, phase, calls, cyc, ls,
                   ex, offset1, dest, registry, failing, result,
                   commits, sched, ceph, gen>>

\* service.read raised AllocationError, or returned no data:
\* await self._jobs.put((offset, offset + alloc.size)).
ReadFailsRequeue(w) ==
    /\ phase = "download"
    /\ wk[w].pc = "read"
    /\ LET job == wk[w].job
           back == [job EXCEPT !.size = job.offset + wk[w].alloc.size]
           w1 == [wk EXCEPT ![w].job = NoJob, ![w].alloc = NoAlloc]
           h1 == Logged(hist, <<Ev("fail", job.offset, job.size, wk[w].alloc),
                                Ev("put", back.offset, back.size, NoAlloc)>>)
       IN \E s1 \in {DownloadLoop([jobs |-> Append(jobs, back), wk |-> w1, ls |-> ls,
                                   hist |-> h1], w)} :
          /\ jobs' = s1.jobs
          /\ wk' = s1.wk
          /\ ls' = s1.ls
          /\ hist' = s1.hist
    /\ UNCHANGED <<depots, threads, fsize, record, phase, calls, cyc,
                   ex, offset1, dest, registry, failing, result,
                   commits, sched, ceph, gen>>

\* The reads that fail are those of the depots that are down during the
\* download, and those of an allocation that holds no data.
DownloadReadFails(w) ==
    /\ ReadFails(wk[w].alloc) \/ wk[w].alloc.data = <<>>
    /\ ReadFailsRequeue(w)

\* service.read, buildAllocation or the lookup of the depot raises anything
\* but AllocationError: the task raises, gather raises, and download raises
\* to its caller.  The jobs on the queue stay there.
DownloadFatal(w) ==
    /\ phase = "download"
    /\ wk[w].pc = "read"
    /\ phase' = "idle"
    /\ wk' = [v \in 1..threads |-> IdleWorker]
    /\ result' = [kind |-> "raised", bytes |-> 0, ex |-> NoExnode]
    /\ ex' = NoExnode
    /\ ls' = <<>>
    /\ UNCHANGED <<depots, threads, fsize, jobs, record, calls, cyc, offset1, dest,
                   registry, failing, hist, commits, sched, ceph, gen>>

\* The awaited fh.write returned: downloaded += length.
DownloadWrite(w) ==
    /\ phase = "download"
    /\ wk[w].pc = "write"
    /\ dest' = WriteAt(dest, wk[w].alloc.offset, wk[w].data)
    /\ LET w1 == [wk EXCEPT ![w].bytes = @ + Len(wk[w].data),
                            ![w].job = NoJob, ![w].alloc = NoAlloc, ![w].data = <<>>]
           h1 == Logged(hist, <<Ev("write", wk[w].job.offset, wk[w].job.size, wk[w].alloc)>>)
       IN \E s1 \in {DownloadLoop([jobs |-> jobs, wk |-> w1, ls |-> ls, hist |-> h1], w)} :
          /\ jobs' = s1.jobs
          /\ wk' = s1.wk
          /\ ls' = s1.ls
          /\ hist' = s1.hist
    /\ UNCHANGED <<depots, threads, fsize, record, phase, calls, cyc,
                   ex, offset1, registry, failing, result,
                   commits, sched, ceph, gen>>

\* gather returned: DownloadResult(time, sum of the workers' counts, ex).
DownloadReturn ==
    /\ phase = "download"
    /\ \A w \in 1..threads : wk[w].pc = "done"
    /\ result' = [kind |-> "DownloadResult", bytes |-> GatherBytes(1), ex |-> ex]
    /\ phase' = "idle"
    /\ wk' = [v \in 1..threads |-> IdleWorker]
    /\ ex' = NoExnode
    /\ ls' = <<>>
    /\ UNCHANGED <<depots, threads, fsize, jobs, record, calls, cyc,
                   offset1, dest, registry, failing, hist,
                   commits, sched, ceph, gen>>

-----------------------------------------------------------------------------
(* Session.download with threads = 1 *)

\* The job is put on the queue, then the linear loop runs on the schedule
\* alone.
Download1Start(href, fail) ==
    /\ phase = "idle" /\ calls.down < MaxDownloads
    /\ threads = 1
    /\ href \in 1..Len(registry)
    /\ ex' = registry[href]
    /\ ls' = SetSource(registry[href].extents)
    /\ jobs' = Append(jobs, DownloadJob(registry[href].size, calls.up + calls.down + 1))
    /\ hist' = [NoHist EXCEPT !.stale = (jobs # <<>>), !.logging = hist.logging]
    /\ failing' = fail
    /\ dest' = EmptyDest
    /\ offset1' = 0
    /\ calls' = [calls EXCEPT !.down = @ + 1]
    /\ phase' = "download1"
    /\ result' = NoResult
    /\ UNCHANGED <<depots, threads, fsize, record, cyc, wk, registry,
                   commits, sched, ceph, gen>>

\* One turn of the loop whose read gives data: seek(alloc.offset), write,
\* offset += length.
Download1Read ==
    /\ phase = "download1"
    /\ offset1 < ex.size
    /\ LET g == DownloadScheduleGet(ls, offset1)
       IN /\ ~g.err
          /\ ~ReadFails(g.alloc)
          /\ g.alloc.data # <<>>
          /\ ls' = g.ls
          /\ hist' = Logged([hist EXCEPT !.maxGets = Max(@, g.gets)],
                            <<Ev("get", offset1, ex.size, g.alloc),
                              Ev("read", offset1, ex.size, g.alloc),
                              Ev("ok", offset1, ex.size, g.alloc),
                              Ev("write", offset1, ex.size, g.alloc)>>)
          /\ dest' = WriteAt(dest, g.alloc.offset, g.alloc.data)
          /\ offset1' = offset1 + Len(g.alloc.data)
    /\ UNCHANGED <<depots, threads, fsize, jobs, record, phase, calls, cyc, ex, wk, registry, failing, result,
                   commits, sched, ceph, gen>>

\* One turn whose read raises AllocationError (continue) or gives no data.
Download1TurnFails ==
    /\ phase = "download1"
    /\ offset1 < ex.size
    /\ LET g == DownloadScheduleGet(ls, offset1)
       IN /\ ~g.err
          /\ ls' = g.ls
          /\ hist' = Logged([hist EXCEPT !.maxGets = Max(@, g.gets)],
                            <<Ev("get", offset1, ex.size, g.alloc),
                              Ev("read", offset1, ex.size, g.alloc),
                              Ev("fail", offset1, ex.size, g.alloc)>>)
    /\ UNCHANGED <<depots, threads, fsize, jobs, record, phase, calls, cyc, ex, wk, offset1, dest, registry, failing, result,
                   commits, sched, ceph, gen>>

Download1ReadFails ==
    /\ LET g == DownloadScheduleGet(ls, offset1)
       IN ReadFails(g.alloc) \/ g.alloc.data = <<>>
    /\ Download1TurnFails

\* One turn in which the read raises anything but AllocationError: download
\* raises to its caller.
Download1Fatal ==
    /\ phase = "download1"
    /\ offset1 < ex.size
    /\ ~DownloadScheduleGet(ls, offset1).err
    /\ phase' = "idle"
    /\ result' = [kind |-> "raised", bytes |-> 0, ex |-> NoExnode]
    /\ ex' = NoExnode
    /\ ls' = <<>>
    /\ offset1' = 0
    /\ UNCHANGED <<depots, threads, fsize, jobs, record, calls, cyc, wk, dest,
                   registry, failing, hist, commits, sched, ceph, gen>>

\* The loop ends (offset >= ex.size, or IndexError: break): downloaded = offset.
Download1Return ==
    /\ phase = "download1"
    /\ offset1 >= ex.size \/ DownloadScheduleGet(ls, offset1).err
    /\ result' = [kind |-> "DownloadResult", bytes |-> offset1, ex |-> ex]
    /\ phase' = "idle"
    /\ ex' = NoExnode
    /\ ls' = <<>>
    /\ offset1' = 0
    /\ UNCHANGED <<depots, threads, fsize, jobs, record, calls, cyc,
                   wk, dest, registry, failing, hist,
                   commits, sched, ceph, gen>>

-----------------------------------------------------------------------------

\* An exnode that an earlier session stored for the same file: one replica of
\* every block on depot 1.
RECURSIVE StoredExtents(_)
StoredExtents(chunk) ==
    IF chunk >= fsize THEN <<>>
    ELSE <<MakeAllocation(FileRead(chunk, BlockSize), chunk, 1)>>
         \o StoredExtents(chunk + BlockSize)

StoredExnode == [size |-> fsize, extents |-> StoredExtents(0)]

\* Session.__init__: a non-empty depot table (keys in insertion order 1..n), an
\* empty job queue and record.  The runtime holds no exnode yet, or one.
Init ==
    /\ \E n \in 1..NumDepots : depots \in [1..n -> BOOLEAN]
    /\ threads \in 1..MaxThreads
    /\ fsize \in 0..MaxSize
    /\ jobs = <<>>
    /\ record = 0
    /\ phase = "idle"
    /\ calls = [up |-> 0, down |-> 0]
    /\ cyc = 1
    /\ ls = <<>>
    /\ ex = NoExnode
    /\ wk = [w \in 1..threads |-> IdleWorker]
    /\ offset1 = 0
    /\ dest = EmptyDest
    /\ registry \in {<<>>, <<StoredExnode>>}
    /\ failing = {}
    /\ result = NoResult
    /\ hist = NoHist
    /\ commits = <<>>
    /\ sched = NoSched
    /\ ceph = NoCeph
    /\ gen = NoGen

Next ==
    \/ \E c \in 1..MaxCopies : UploadTooFewDepots(c)
    \/ \E c \in 1..MaxCopies : UploadStart(c)
    \/ \E w \in 1..threads : UploadSchedule(w)
    \/ \E w \in 1..threads : UploadScheduleHang(w)
    \/ \E w \in 1..threads : UploadScheduleRaises(w)
    \/ \E w \in 1..threads : UploadAllocated(w)
    \/ \E w \in 1..threads : UploadAllocationError(w)
    \/ \E w \in 1..threads : UploadFatal(w)
    \/ UploadReturn
    \/ \E h \in 1..Len(registry), f \in SUBSET (DOMAIN depots) : DownloadStart(h, f)
    \/ \E w \in 1..threads : DownloadRead(w)
    \/ \E w \in 1..threads : DownloadReadFails(w)
    \/ \E w \in 1..threads : DownloadWrite(w)
    \/ \E w \in 1..threads : DownloadFatal(w)
    \/ DownloadReturn
    \/ \E h \in 1..Len(registry), f \in SUBSET (DOMAIN depots) : Download1Start(h, f)
    \/ Download1Read
    \/ Download1ReadFails
    \/ Download1Fatal
    \/ Download1Return

Spec == Init /\ [][Next]_vars

\* The uploads of a session, with a driver that may fail without end.  The
\* event loop runs every task that is ready and the executor finishes every
\* call handed to it, so a step that stays possible is taken.
UploadInit == Init /\ registry = <<>>

UploadNext ==
    \/ \E c \in 1..MaxCopies : UploadTooFewDepots(c)
    \/ \E c \in 1..MaxCopies : UploadStart(c)
    \/ \E w \in 1..threads : UploadSchedule(w)
    \/ \E w \in 1..threads : UploadScheduleHang(w)
    \/ \E w \in 1..threads : UploadScheduleRaises(w)
    \/ \E w \in 1..threads : UploadAllocated(w)
    \/ \E w \in 1..threads : AllocationErrorRequeue(w)
    \/ \E w \in 1..threads : UploadFatal(w)
    \/ UploadReturn

FairSpec == UploadInit /\ [][UploadNext]_vars /\ WF_vars(UploadNext)

-----------------------------------------------------------------------------
(* The two bundled schedules, called directly: setSource, then get calls in  *)
(* any order.  A second object of the same class has setSource called twice. *)

\* An allocation of a stored exnode: the bytes of the file at its offset.
StoredAlloc(o, s, d) == MakeAllocation([i \in 1..s |-> FileByte(o + i - 1)], o, d)

AllocChoices(fs) ==
    {StoredAlloc(o, s, d) : o \in 0..(fs - 1), s \in 1..fs, d \in 1..NumDepots}

\* The extent lists of the exnodes of a file of fs bytes, every extent inside
\* the file.
ExtentChoices(fs) ==
    UNION {[1..n -> {a \in AllocChoices(fs) : a.offset + a.size <= fs}] :
              n \in 0..MaxExtents}

SchedInit ==
    /\ threads = 1
    /\ jobs = <<>>
    /\ record = 0
    /\ phase = "fresh"
    /\ calls = [up |-> 0, down |-> 0]
    /\ cyc = 1
    /\ ls = <<>>
    /\ wk = [w \in 1..threads |-> IdleWorker]
    /\ offset1 = 0
    /\ dest = EmptyDest
    /\ registry = <<>>
    /\ failing = {}
    /\ result = NoResult
    /\ hist = NoHist
    /\ commits = <<>>
    /\ ceph = NoCeph
    /\ gen = NoGen
    /\ \/ /\ sched = [NoSched EXCEPT !.mode = "up"]
          /\ \E n \in 1..SchedDepots : depots \in [1..n -> BOOLEAN]
          /\ fsize = 0
          /\ ex = NoExnode
       \/ /\ sched = [NoSched EXCEPT !.mode = "down"]
          /\ depots = [d \in 1..NumDepots |-> TRUE]
          /\ fsize \in 1..MaxSize
          /\ \E e \in ExtentChoices(fsize) : ex = [size |-> fsize, extents |-> e]

\* schedule.setSource(source) on both objects.
SchedSetSource ==
    /\ phase = "fresh"
    /\ phase' = "sched"
    /\ ls' = IF sched.mode = "down" THEN SetSource(ex.extents) ELSE <<>>
    /\ cyc' = 1
    /\ sched' = [sched EXCEPT !.ls = IF sched.mode = "down" THEN SetSource(ex.extents) ELSE <<>>,
                              !.cyc = 1]
    /\ UNCHANGED <<depots, threads, fsize, jobs, record, calls, ex, wk, offset1,
                   dest, registry, failing, result, hist, commits, ceph, gen>>

\* setSource(source) once more on the second object, before any get.
SchedSetSourceAgain ==
    /\ phase = "sched"
    /\ ~sched.again /\ sched.n = 0
    /\ sched' = [sched EXCEPT !.again = TRUE,
                              !.ls = IF sched.mode = "down" THEN SetSource(ex.extents) ELSE <<>>,
                              !.cyc = 1]
    /\ UNCHANGED <<depots, threads, fsize, jobs, record, phase, calls, cyc, ls, ex,
                   wk, offset1, dest, registry, failing, result, hist, commits, ceph, gen>>

\* BaseDownloadSchedule.get({"offset": o}) on both objects.
SchedDownloadGet(o) ==
    /\ phase = "sched" /\ sched.mode = "down"
    /\ LET g1 == DownloadScheduleGet(ls, o)
           g2 == DownloadScheduleGet(sched.ls, o)
       IN /\ ls' = g1.ls
          /\ sched' = [sched EXCEPT !.ls = g2.ls,
                                    !.n = Min(@ + 1, MaxGets),
                                    !.offset = o,
                                    !.one = [err |-> g1.err, alloc |-> g1.alloc],
                                    !.two = [err |-> g2.err, alloc |-> g2.alloc]]
    /\ UNCHANGED <<depots, threads, fsize, jobs, record, phase, calls, cyc, ex,
                   wk, offset1, dest, registry, failing, result, hist, commits, ceph, gen>>

\* BaseUploadSchedule.get() on both objects.
SchedUploadGet ==
    /\ phase = "sched" /\ sched.mode = "up"
    /\ sched.n < MaxGets
    /\ LET g1 == UploadScheduleGet(cyc)
           g2 == UploadScheduleGet(sched.cyc)
       IN /\ ~g1.hang
          /\ cyc' = g1.next
          /\ sched' = [sched EXCEPT !.cyc = g2.next,
                                    !.n = @ + 1,
                                    !.ret = Append(@, g1.depot),
                                    !.ret2 = Append(@, g2.depot)]
    /\ UNCHANGED <<depots, threads, fsize, jobs, record, phase, calls, ls, ex,
                   wk, offset1, dest, registry, failing, result, hist, commits, ceph, gen>>

\* BaseUploadSchedule.get() with no enabled depot: the loop never ends.
SchedUploadGetHang ==
    /\ phase = "sched" /\ sched.mode = "up"
    /\ UploadScheduleGet(cyc).hang
    /\ phase' = "hung"
    /\ UNCHANGED <<depots, threads, fsize, jobs, record, calls, cyc, ls, ex, wk, offset1,
                   dest, registry, failing, result, hist, commits, sched, ceph, gen>>

SchedNext ==
    \/ SchedSetSource
    \/ SchedSetSourceAgain
    \/ \E o \in 0..fsize : SchedDownloadGet(o)
    \/ SchedUploadGet
    \/ SchedUploadGetHang

SchedSpec == SchedInit /\ [][SchedNext]_vars

-----------------------------------------------------------------------------
(* The downloads of a session whose runtime holds one exnode of any layout,  *)
(* with the log of the download kept.                                        *)

DownloadInit ==
    /\ depots = [d \in 1..NumDepots |-> TRUE]
    /\ threads \in 1..MaxThreads
    /\ fsize \in 1..MaxSize
    /\ jobs = <<>>
    /\ record = 0
    /\ phase = "idle"
    /\ calls = [up |-> 0, down |-> 0]
    /\ cyc = 1
    /\ ls = <<>>
    /\ ex = NoExnode
    /\ wk = [w \in 1..threads |-> IdleWorker]
    /\ offset1 = 0
    /\ dest = EmptyDest
    /\ \E e \in ExtentChoices(fsize) :
          registry = <<[size |-> fsize, extents |-> e]>>
    /\ failing = {}
    /\ result = NoResult
    /\ hist = [NoHist EXCEPT !.logging = TRUE]
    /\ commits = <<>>
    /\ sched = NoSched
    /\ ceph = NoCeph
    /\ gen = NoGen

DownloadNext ==
    \/ \E h \in 1..Len(registry), f \in SUBSET (DOMAIN depots) : DownloadStart(h, f)
    \/ \E w \in 1..threads : DownloadRead(w)
    \/ \E w \in 1..threads : DownloadReadFails(w)
    \/ \E w \in 1..threads : DownloadWrite(w)
    \/ \E w \in 1..threads : DownloadFatal(w)
    \/ DownloadReturn
    \/ \E h \in 1..Len(registry), f \in SUBSET (DOMAIN depots) : Download1Start(h, f)
    \/ Download1Read
    \/ Download1ReadFails
    \/ Download1Fatal
    \/ Download1Return

DownloadSpec == DownloadInit /\ [][DownloadNext]_vars

\* The same downloads with reads that may fail or give no data at any time,
\* without end.  The event loop runs every task that is ready and the
\* executor finishes every call handed to it, so a step that stays possible
\* is taken.
RetryInit ==
    /\ depots = [d \in 1..NumDepots |-> TRUE]
    /\ threads \in 1..MaxThreads
    /\ fsize \in 1..MaxSize
    /\ jobs = <<>>
    /\ record = 0
    /\ phase = "idle"
    /\ calls = [up |-> 0, down |-> 0]
    /\ cyc = 1
    /\ ls = <<>>
    /\ ex = NoExnode
    /\ wk = [w \in 1..threads |-> IdleWorker]
    /\ offset1 = 0
    /\ dest = EmptyDest
    /\ \E e \in ExtentChoices(fsize) :
          registry = <<[size |-> fsize, extents |-> e]>>
    /\ failing = {}
    /\ result = NoResult
    /\ hist = NoHist
    /\ commits = <<>>
    /\ sched = NoSched
    /\ ceph = NoCeph
    /\ gen = NoGen

RetryNext ==
    \/ \E h \in 1..Len(registry) : DownloadStart(h, {})
    \/ \E w \in 1..threads : DownloadRead(w)
    \/ \E w \in 1..threads : ReadFailsRequeue(w)
    \/ \E w \in 1..threads : DownloadWrite(w)
    \/ DownloadReturn
    \/ \E h \in 1..Len(registry) : Download1Start(h, {})
    \/ Download1Read
    \/ Download1TurnFails
    \/ Download1Return

RetrySpec == RetryInit /\ [][RetryNext]_vars /\ WF_vars(RetryNext)

-----------------------------------------------------------------------------
(* The Ceph driver: one ProtocolService shared by the worker tasks.  A task  *)
(* is suspended only at its two awaits, the connect and the I/O, both run    *)
(* in the executor.                                                          *)

CephTasks == 2
CephConfs == 2
CephCalls == 2

NoCluster == 0

CephIdle == [pc |-> "idle", conf |-> 0, cluster |-> NoCluster, calls |-> 0]

\* ProtocolService(): cluster_cache = dict().  made lists the Cluster objects
\* created so far, replaced tells whether a store found the key already bound.
CephInit ==
    /\ depots = <<>>
    /\ threads = 1
    /\ fsize = 0
    /\ jobs = <<>>
    /\ record = 0
    /\ phase = "ceph"
    /\ calls = [up |-> 0, down |-> 0]
    /\ cyc = 1
    /\ ls = <<>>
    /\ ex = NoExnode
    /\ wk = [w \in 1..threads |-> IdleWorker]
    /\ offset1 = 0
    /\ dest = EmptyDest
    /\ registry = <<>>
    /\ failing = {}
    /\ result = NoResult
    /\ hist = NoHist
    /\ commits = <<>>
    /\ sched = NoSched
    /\ gen = NoGen
    /\ ceph = [cache |-> [c \in 1..CephConfs |-> NoCluster],
               made |-> <<>>,
               replaced |-> FALSE,
               tasks |-> [t \in 1..CephTasks |-> CephIdle]]

CephUnchanged ==
    UNCHANGED <<depots, threads, fsize, jobs, record, phase, calls, cyc, ls, ex, wk,
                offset1, dest, registry, failing, result, hist, commits, sched, gen>>

\* self.cluster_cache[conf] = cluster
CacheStore(cache, conf, cluster) == [cache EXCEPT ![conf] = cluster]

\* read or write enters _get_cluster.  A hit returns the cached cluster and
\* the task runs on to the awaited I/O; a miss creates a Cluster and awaits
\* its connect.
CephCall(t, conf) ==
    /\ phase = "ceph"
    /\ ceph.tasks[t].pc = "idle"
    /\ ceph.tasks[t].calls < CephCalls
    /\ IF ceph.cache[conf] # NoCluster
       THEN ceph' = [ceph EXCEPT !.tasks[t] = [@ EXCEPT !.pc = "io", !.conf = conf,
                                                        !.cluster = ceph.cache[conf]]]
       ELSE ceph' = [ceph EXCEPT
                        !.made = Append(@, [conf |-> conf, connected |-> FALSE]),
                        !.tasks[t] = [@ EXCEPT !.pc = "connect", !.conf = conf,
                                               !.cluster = Len(ceph.made) + 1]]
    /\ CephUnchanged

\* The awaited connect returned: the cluster is stored under its conf and
\* the task runs on to the awaited I/O.
CephConnected(t) ==
    /\ phase = "ceph"
    /\ ceph.tasks[t].pc = "connect"
    /\ LET task == ceph.tasks[t] IN
       ceph' = [ceph EXCEPT
                   !.cache = CacheStore(@, task.conf, task.cluster),
                   !.made[task.cluster].connected = TRUE,
                   !.replaced = @ \/ ceph.cache[task.conf] # NoCluster,
                   !.tasks[t].pc = "io"]
    /\ CephUnchanged

\* The awaited connect raised: the call raises and nothing is stored.
CephConnectFails(t) ==
    /\ phase = "ceph"
    /\ ceph.tasks[t].pc = "connect"
    /\ ceph' = [ceph EXCEPT !.tasks[t] = [CephIdle EXCEPT !.calls = ceph.tasks[t].calls + 1]]
    /\ CephUnchanged

\* The awaited ioctx.read or ioctx.write_full returned: ioctx.close(), return.
CephIoDone(t) ==
    /\ phase = "ceph"
    /\ ceph.tasks[t].pc = "io"
    /\ ceph' = [ceph EXCEPT !.tasks[t] = [CephIdle EXCEPT !.calls = ceph.tasks[t].calls + 1]]
    /\ CephUnchanged

CephNext ==
    \/ \E t \in 1..CephTasks, conf \in 1..CephConfs : CephCall(t, conf)
    \/ \E t \in 1..CephTasks : CephConnected(t)
    \/ \E t \in 1..CephTasks : CephConnectFails(t)
    \/ \E t \in 1..CephTasks : CephIoDone(t)

CephSpec == CephInit /\ [][CephNext]_vars

-----------------------------------------------------------------------------
(* The downloads of an exnode whose extents cover the file, in any layout    *)
(* (replicas, overlaps, differing sizes), with every read succeeding.        *)

MaxCover == 3

\* The extent lists of up to MaxCover extents on depot 1 that cover a file of
\* fs bytes.
CoverChoices(fs) ==
    {e \in UNION {[1..n -> {a \in AllocChoices(fs) :
                               a.offset + a.size <= fs /\ a.location = 1}] :
                     n \in 1..MaxCover} :
        \A i \in 0..(fs - 1) : \E n \in 1..Len(e) :
            e[n].offset <= i /\ i < e[n].offset + e[n].size}

ManifestInit ==
    /\ depots = [d \in 1..NumDepots |-> TRUE]
    /\ threads \in 1..MaxThreads
    /\ fsize \in 1..MaxSize
    /\ jobs = <<>>
    /\ record = 0
    /\ phase = "idle"
    /\ calls = [up |-> 0, down |-> 0]
    /\ cyc = 1
    /\ ls = <<>>
    /\ ex = NoExnode
    /\ wk = [w \in 1..threads |-> IdleWorker]
    /\ offset1 = 0
    /\ dest = EmptyDest
    /\ \E e \in CoverChoices(fsize) :
          registry = <<[size |-> fsize, extents |-> e]>>
    /\ failing = {}
    /\ result = NoResult
    /\ hist = NoHist
    /\ commits = <<>>
    /\ sched = NoSched
    /\ ceph = NoCeph
    /\ gen = NoGen

ManifestNext ==
    \/ \E h \in 1..Len(registry) : DownloadStart(h, {})
    \/ \E w \in 1..threads : DownloadRead(w)
    \/ \E w \in 1..threads : DownloadWrite(w)
    \/ DownloadReturn
    \/ \E h \in 1..Len(registry) : Download1Start(h, {})
    \/ Download1Read
    \/ Download1Return

ManifestSpec == ManifestInit /\ [][ManifestNext]_vars

-----------------------------------------------------------------------------
(* Session._generate_jobs called on its own, on the empty queue of a new     *)
(* session, for any block size, file size and number of copies.              *)

GenStep == 3
GenSize == 6
GenCopies == 3

GenInit ==
    /\ depots = <<TRUE>>
    /\ threads = 1
    /\ fsize = 0
    /\ jobs = <<>>
    /\ record = 0
    /\ phase = "gen"
    /\ calls = [up |-> 0, down |-> 0]
    /\ cyc = 1
    /\ ls = <<>>
    /\ ex = NoExnode
    /\ wk = [w \in 1..threads |-> IdleWorker]
    /\ offset1 = 0
    /\ dest = EmptyDest
    /\ registry = <<>>
    /\ failing = {}
    /\ result = NoResult
    /\ hist = NoHist
    /\ commits = <<>>
    /\ sched = NoSched
    /\ ceph = NoCeph
    /\ gen \in [step : 1..GenStep, size : 0..GenSize, copies : 1..GenCopies,
                done : {FALSE}]

\* self._generate_jobs(step, size, copies)
Generate ==
    /\ phase = "gen"
    /\ ~gen.done
    /\ jobs' = jobs \o GenerateJobs(gen.step, gen.size, gen.copies, 1)
    /\ gen' = [gen EXCEPT !.done = TRUE]
    /\ UNCHANGED <<depots, threads, fsize, record, phase, calls, cyc, ls, ex, wk,
                   offset1, dest, registry, failing, result, hist, commits, sched, ceph>>

GenNext == Generate

GenSpec == GenInit /\ [][GenNext]_vars

-----------------------------------------------------------------------------
(* What the claims speak of *)

Range(s) == {s[i] : i \in 1..Len(s)}

\* The chunk offsets k * BlockSize below size.
ChunkOffsets(size) == {o \in 0..MaxSize : o < size /\ o % BlockSize = 0}

\* The bytes [offset, offset + size) of an allocation.
Bytes(alloc) == {i \in 0..(MaxSize + BlockSize) :
                    alloc.offset <= i /\ i < alloc.offset + alloc.size}

Covered(extents) == UNION {Bytes(a) : a \in Range(extents)}

\* The indices of the extents at offset o.
At(extents, o) == {i \in 1..Len(extents) : extents[i].offset = o}

EnabledCount == Cardinality({d \in DOMAIN depots : depots[d]})

UploadReturned == phase = "idle" /\ result.kind = "UploadResult"

DownloadReturned == phase = "idle" /\ result.kind = "DownloadResult"

\* C1: when upload returns a result for a file of size S > 0, the extents of
\* the exnode cover exactly [0, S): every chunk offset k*B < S has at least
\* one allocation.
C1_UploadCovers ==
    (UploadReturned /\ result.ex.size > 0) =>
        /\ Covered(result.ex.extents) = 0..(result.ex.size - 1)
        /\ \A o \in ChunkOffsets(result.ex.size) : At(result.ex.extents, o) # {}

\* C2: if no make_allocation call failed during the upload, every chunk offset
\* has exactly C allocations in the exnode, ceil(S/B)*C in all.
C2_ExactReplication ==
    (UploadReturned /\ hist.fails = 0) =>
        /\ \A o \in ChunkOffsets(result.ex.size) :
              Cardinality(At(result.ex.extents, o)) = hist.copies
        /\ Len(result.ex.extents)
              = Cardinality(ChunkOffsets(result.ex.size)) * hist.copies

\* C3, in the case most favourable to it (the bundled schedule never raises, no
\* driver call fails, the queue is empty when upload is called): with at least
\* C enabled depots, the allocations of one chunk offset are on pairwise
\* distinct depots, whatever the interleaving of the workers.
C3_DistinctDepots ==
    (UploadReturned /\ EnabledCount >= hist.copies /\ hist.fails = 0
        /\ ~hist.schedFail /\ ~hist.stale) =>
        \A i, j \in 1..Len(result.ex.extents) :
            (i # j /\ result.ex.extents[i].offset = result.ex.extents[j].offset)
                => result.ex.extents[i].location # result.ex.extents[j].location

\* C4: every allocation of the exnode an upload produced lies in the file and
\* in one block: 0 <= offset < S, offset + size <= S, size <= B.
C4_AllocationBounds ==
    (UploadReturned /\ result.ex.size > 0) =>
        \A a \in Range(result.ex.extents) :
            /\ 0 <= a.offset /\ a.offset < result.ex.size
            /\ a.offset + a.size <= result.ex.size
            /\ a.size <= BlockSize

\* C5: round trip.  When download returns and every chunk offset of the exnode
\* has a replica on a depot whose reads do not fail, the destination holds
\* exactly the bytes of the file that was uploaded.
C5_RoundTrip ==
    (DownloadReturned
        /\ \A o \in ChunkOffsets(result.ex.size) :
              \E i \in At(result.ex.extents, o) :
                  result.ex.extents[i].location \notin failing) =>
        \A i \in DOMAIN dest :
            dest[i] = IF i < result.ex.size THEN FileByte(i) ELSE 0

\* A download by two workers of an exnode this session uploaded with two
\* replicas of each of its two chunks, some replica on a depot whose reads
\* fail, has returned and the destination holds the file.
C5_RoundTripDone ==
    /\ DownloadReturned
    /\ threads > 1
    /\ calls.up = 1
    /\ registry = <<result.ex>>
    /\ result.ex.size = MaxSize
    /\ Len(result.ex.extents) = 4
    /\ \E a \in Range(result.ex.extents) : a.location \in failing
    /\ \A o \in ChunkOffsets(result.ex.size) :
          \E i \in At(result.ex.extents, o) :
              result.ex.extents[i].location \notin failing
    /\ \A i \in 0..(result.ex.size - 1) : dest[i] = FileByte(i)

\* C6: no job taken off the queue ends without an allocation or a written
\* chunk, without being put back, and without an error reaching the caller.
C6_NoJobLost == fsize > 0 => ~hist.dropped

\* C7: no slot of the download schedule is returned by get more than
\* DOWNLOAD_RETRY times.
C7_SlotReturnsBounded == hist.maxGets <= DOWNLOAD_RETRY

\* C7, as the schedule keeps it: no slot is returned by get more than
\* DOWNLOAD_RETRY + 1 times, and the retry count of a slot that is still in
\* the schedule never exceeds DOWNLOAD_RETRY.
C7_SlotReturnsWithinRetries ==
    /\ hist.maxGets <= DOWNLOAD_RETRY + 1
    /\ \A i \in 1..Len(ls) : \A s \in Range(ls[i].slots) :
          s.retry <= DOWNLOAD_RETRY /\ s.gets = s.retry

\* A download in which get has returned one slot DOWNLOAD_RETRY + 1 times.
C7_SlotReturnedFourTimes ==
    /\ phase = "download"
    /\ hist.maxGets = DOWNLOAD_RETRY + 1

\* C8: no upload job is handed to make_allocation more than RETRY_LIMIT (3)
\* times, and a job that was tried that often is not put back on the queue.
C8_UploadRetriesBounded ==
    phase = "upload" =>
        /\ \A w \in 1..threads : wk[w].job.tries <= DOWNLOAD_RETRY
        /\ \A j \in Range(jobs) : j.tries < DOWNLOAD_RETRY

\* C9: every upload that is running returns, whatever calls of the driver fail
\* (the schedule that never yields a depot is left to C13).
C9_UploadReturns == (phase = "upload") ~> (phase \in {"idle", "hung"})

\* C10: an upload asked for more replicas than there are enabled depots fails
\* at once: no transfer runs, no job of it is on the queue (read in the
\* claim's favour: the None that upload hands back counts as the failure).
C10_InsufficientDepots ==
    hist.copies > EnabledCount =>
        /\ phase = "idle"
        /\ result.kind = "None"
        /\ \A j \in Range(jobs) : j.xfer # calls.up + calls.down

\* Some slot still in the schedule holds an allocation whose range has o.
AnyCovering(chunks, o) ==
    \E i \in 1..Len(chunks) : \E s \in Range(chunks[i].slots) :
        s.alloc.offset <= o /\ o < s.alloc.offset + s.alloc.size

\* C11: in every state of a download schedule, get(offset) fails with
\* IndexError exactly when no remaining slot holds an allocation with
\* alloc.offset <= offset < alloc.offset + alloc.size, and the failure that a
\* get call reported was of that kind.
C11_NoCandidateIff ==
    (phase = "sched" /\ sched.mode = "down") =>
        /\ \A o \in 0..fsize :
              DownloadScheduleGet(ls, o).err <=> ~AnyCovering(ls, o)
        /\ (sched.n > 0 /\ sched.one.err) => ~AnyCovering(ls, sched.offset)
        /\ (sched.n > 0 /\ ~sched.one.err) =>
              /\ sched.one.alloc.offset <= sched.offset
              /\ sched.offset < sched.one.alloc.offset + sched.one.alloc.size

\* A get call failed inside the file while slots for other offsets remain.
C11_NoCandidateSeen ==
    /\ phase = "sched" /\ sched.mode = "down"
    /\ sched.n > 0 /\ sched.one.err
    /\ sched.offset < fsize
    /\ \E i \in 1..Len(ls) : ls[i].slots # <<>>

\* C12: every depot that BaseUploadSchedule.get returned is enabled, and
\* between two consecutive returns of one depot every other enabled depot was
\* returned exactly once.
C12_RoundRobin ==
    sched.mode = "up" =>
        /\ \A i \in 1..Len(sched.ret) : depots[sched.ret[i]]
        /\ \A i, j \in 1..Len(sched.ret) :
              (/\ i < j
               /\ sched.ret[i] = sched.ret[j]
               /\ \A k \in (i + 1)..(j - 1) : sched.ret[k] # sched.ret[i]) =>
                  \A d \in {e \in DOMAIN depots : depots[e]} \ {sched.ret[i]} :
                      Cardinality({k \in (i + 1)..(j - 1) : sched.ret[k] = d}) = 1

\* MaxGets calls were made on a table of three depots, one of them disabled.
C12_RoundRobinSeen ==
    /\ sched.mode = "up"
    /\ NDepots = 3 /\ EnabledCount = 2
    /\ Len(sched.ret) = MaxGets

\* C13: every call of BaseUploadSchedule.get completes, whatever the depot
\* table: no call is left looping over the cycle.
C13_UploadGetCompletes == phase # "hung"

\* The workers of a download have finished, or the loop of the
\* single-threaded download has; the schedule is as they left it.
DownloadEnded ==
    \/ phase = "download" /\ \A w \in 1..threads : wk[w].pc = "done"
    \/ phase = "download1"
          /\ (offset1 >= ex.size \/ DownloadScheduleGet(ls, offset1).err)

\* The layout upload gives an exnode: the extents at one offset have one
\* size, the extents at two offsets do not overlap.
Uniform(extents) ==
    \A a, b \in Range(extents) :
        IF a.offset = b.offset THEN a.size = b.size ELSE Bytes(a) \cap Bytes(b) = {}

\* The entries of the log of a given kind for offset o, and the first two
\* get entries for it.
LogAt(kind, o) ==
    {i \in 1..Len(hist.log) : hist.log[i].ev = kind /\ hist.log[i].offset = o}

FirstOf(S) == CHOOSE i \in S : \A j \in S : i <= j

\* Offset o has two or more replicas, the replica that get returned first for
\* it is on a depot whose reads fail, the others are not.
FailoverCase(o) ==
    /\ Uniform(ex.extents)
    /\ Cardinality(At(ex.extents, o)) >= 2
    /\ LogAt("get", o) # {}
    /\ LET a1 == hist.log[FirstOf(LogAt("get", o))].alloc
       IN /\ a1.location \in failing
          /\ \A i \in At(ex.extents, o) :
                ex.extents[i] # a1 => ex.extents[i].location \notin failing
          /\ \E i \in At(ex.extents, o) : ex.extents[i] # a1

\* C14: when a download has ended in which the replica tried first for an
\* offset failed and the other replicas of that offset can be read, the job
\* was put back (offset, offset + size) right after the failure, the second
\* get for the offset returned another replica, one chunk was written at the
\* offset, and the retry count of the failed slot is 1.
C14_Failover ==
    DownloadEnded =>
        \A o \in 0..MaxSize :
            FailoverCase(o) =>
                LET G == LogAt("get", o)
                    a1 == hist.log[FirstOf(G)].alloc
                IN /\ threads > 1 =>
                        \E i \in LogAt("fail", o) :
                            /\ hist.log[i].alloc = a1
                            /\ i < Len(hist.log)
                            /\ hist.log[i + 1] = Ev("put", o, o + a1.size, NoAlloc)
                   /\ Cardinality(G) >= 2
                   /\ hist.log[FirstOf(G \ {FirstOf(G)})].alloc # a1
                   /\ Cardinality({i \in 1..Len(hist.log) :
                          hist.log[i].ev = "write" /\ hist.log[i].alloc.offset = o}) = 1
                   /\ \A k \in 1..Len(ls) : \A s \in Range(ls[k].slots) :
                          s.alloc = a1 => s.retry = 1
                   /\ \E k \in 1..Len(ls) : \E s \in Range(ls[k].slots) : s.alloc = a1

\* A download by workers has ended after such a failover at offset 0.
C14_FailoverSeen ==
    /\ phase = "download" /\ DownloadEnded
    /\ FailoverCase(0)

\* The jobs of the get entries of the log, in order.
RECURSIVE JobsGot(_)
JobsGot(log) ==
    IF log = <<>> THEN <<>>
    ELSE (IF Head(log).ev = "get" THEN <<<<Head(log).offset, Head(log).end>>>> ELSE <<>>)
         \o JobsGot(Tail(log))

\* Two extents (0, 1) and (1, 1) of a file of two bytes, read without failure
\* by workers.
TwoExtentCase ==
    /\ threads > 1 /\ failing = {}
    /\ ex.size = 2 /\ Len(ex.extents) = 2
    /\ ex.extents[1].offset = 0 /\ ex.extents[1].size = 1
    /\ ex.extents[2].offset = 1 /\ ex.extents[2].size = 1

\* C15: in a download by workers, every allocation that get returned for a job
\* (offset, end) with alloc.offset + alloc.size < end is followed by the put of
\* the one job (offset + alloc.size, end) and then by the start of its read;
\* every other allocation is followed by the start of its read at once.  For
\* the two extents (0, 1), (1, 1) the jobs taken are (0, 2), then (1, 2).
C15_Remainder ==
    threads > 1 =>
        /\ \A i \in 1..Len(hist.log) :
              hist.log[i].ev = "get" =>
                  LET e == hist.log[i]
                  IN IF e.alloc.offset + e.alloc.size < e.end
                     THEN /\ i + 2 <= Len(hist.log)
                          /\ hist.log[i + 1] = Ev("put", e.offset + e.alloc.size, e.end, NoAlloc)
                          /\ hist.log[i + 2] = Ev("read", e.offset, e.end, e.alloc)
                     ELSE /\ i + 1 <= Len(hist.log)
                          /\ hist.log[i + 1] = Ev("read", e.offset, e.end, e.alloc)
        /\ (DownloadEnded /\ TwoExtentCase) =>
              JobsGot(hist.log) = <<<<0, 2>>, <<1, 2>>>>

\* The download of the two extents (0, 1), (1, 1) by workers has ended.
C15_TwoExtentsDone == DownloadEnded /\ TwoExtentCase /\ Len(hist.log) > 0

RECURSIVE BagOfSeq(_)
BagOfSeq(s) == IF s = <<>> THEN EmptyBag ELSE SetToBag({Head(s)}) (+) BagOfSeq(Tail(s))

RECURSIVE ExtentsOf(_, _)
ExtentsOf(log, id) ==
    IF log = <<>> THEN <<>>
    ELSE (IF Head(log).kind = "extent" /\ Head(log).parent = id
          THEN <<Head(log).alloc>> ELSE <<>>) \o ExtentsOf(Tail(log), id)

\* C16: every allocation inserted into the runtime comes after the insertion
\* of the exnode that is its parent, and when upload has returned the
\* allocations its workers accepted are, each once, the extents of the exnode
\* and the allocations inserted with that exnode as parent.
C16_ExnodeFirst ==
    /\ \A i \in 1..Len(commits) :
          commits[i].kind = "extent" =>
              \E j \in 1..(i - 1) :
                  commits[j].kind = "exnode" /\ commits[j].id = commits[i].parent
    /\ UploadReturned =>
          /\ BagOfSeq(result.ex.extents) = hist.accepted
          /\ BagOfSeq(ExtentsOf(commits, Len(registry))) = hist.accepted
          /\ registry[Len(registry)] = result.ex

\* An upload of two chunks with two replicas each, by two workers, has returned.
C16_UploadAssembled ==
    /\ UploadReturned
    /\ threads > 1
    /\ Len(result.ex.extents) = 4
    /\ Len(commits) = 5

\* C17: no worker task of an upload or a download ends by raising, so no
\* transfer ends with the exception of a worker reaching the caller.
C17_WorkersNeverRaise == result.kind # "raised"

ConnectedFor(conf) ==
    {k \in 1..Len(ceph.made) : ceph.made[k].conf = conf /\ ceph.made[k].connected}

\* C18: under any interleaving of the calls on one Ceph ProtocolService, at
\* most one Cluster is ever connected per conf, the calls doing I/O with one
\* conf all hold that one cluster, and a stored cache entry is never replaced.
C18_OneClusterPerConfig ==
    phase = "ceph" =>
        /\ \A conf \in 1..CephConfs : Cardinality(ConnectedFor(conf)) <= 1
        /\ \A t, u \in 1..CephTasks :
              (/\ ceph.tasks[t].pc = "io" /\ ceph.tasks[u].pc = "io"
               /\ ceph.tasks[t].conf = ceph.tasks[u].conf)
                  => ceph.tasks[t].cluster = ceph.tasks[u].cluster
        /\ ~ceph.replaced

\* The extents of the exnode being downloaded cover its bytes.
CoversFile == \A i \in 0..(ex.size - 1) : i \in Covered(ex.extents)

Downloading == phase \in {"download", "download1"}

\* The writes of the log are on disjoint ranges.
WritesDisjoint ==
    \A i, j \in 1..Len(hist.log) :
        (i < j /\ hist.log[i].ev = "write" /\ hist.log[j].ev = "write")
            => Bytes(hist.log[i].alloc) \cap Bytes(hist.log[j].alloc) = {}

\* No read of a range starts after a read of that range has succeeded.
NoReadAgain ==
    \A i, j \in 1..Len(hist.log) :
        (i < j /\ hist.log[i].ev = "ok" /\ hist.log[j].ev = "read")
            => Bytes(hist.log[i].alloc) # Bytes(hist.log[j].alloc)

\* C19: in the download of any exnode whose extents cover the file, replicas
\* and extents of differing sizes included, the ranges of two successful
\* writes are disjoint and no range is read again after a successful read.
C19_DisjointWrites ==
    (Downloading /\ CoversFile) => (WritesDisjoint /\ NoReadAgain)

\* C19, for the layout upload gives an exnode: in the download of an exnode
\* whose extents cover the file, have one size at one offset and do not
\* overlap at two offsets, the ranges of two successful writes are disjoint
\* and no range is read again after a successful read.
C19_DisjointWritesUniform ==
    (Downloading /\ CoversFile /\ Uniform(ex.extents)) => (WritesDisjoint /\ NoReadAgain)

\* A download by workers of two chunks of such an exnode has ended with both
\* written.
C19_TwoChunksWritten ==
    /\ phase = "download" /\ DownloadEnded
    /\ CoversFile /\ Uniform(ex.extents)
    /\ Cardinality({i \in 1..Len(hist.log) : hist.log[i].ev = "write"}) = 2

\* C20: on a schedule that was given its source twice before any get, every
\* get gives what the same get gives on a schedule that was given the source
\* once, failures included, for the upload and for the download schedule.
C20_SetSourceIdempotent ==
    (phase = "sched" /\ sched.again) =>
        /\ sched.one = sched.two
        /\ sched.ret = sched.ret2

\* Five gets or more on two such download schedules, the last one failing.
C20_GetsAfterSecondSetSource ==
    /\ phase = "sched" /\ sched.again /\ sched.mode = "down"
    /\ ex.extents # <<>>
    /\ sched.n >= 5 /\ sched.one.err

\* The jobs of the queue at offset o.
JobsAt(o) == {i \in 1..Len(jobs) : jobs[i].offset = o}

\* C21: _generate_jobs(B, S, C) on an empty queue leaves exactly C jobs
\* (k*B, B) for every k >= 0 with k*B < S and no other job: ceil(S/B)*C jobs,
\* each of size B, also the one of a short last chunk; none when S = 0.
C21_GeneratedJobs ==
    (phase = "gen" /\ gen.done) =>
        /\ \A k \in 0..GenSize :
              Cardinality(JobsAt(k * gen.step)) =
                  (IF k * gen.step < gen.size THEN gen.copies ELSE 0)
        /\ \A i \in 1..Len(jobs) :
              /\ jobs[i].size = gen.step
              /\ jobs[i].offset % gen.step = 0
              /\ jobs[i].offset < gen.size
        /\ Len(jobs) = ((gen.size + gen.step - 1) \div gen.step) * gen.copies
        /\ gen.size = 0 => jobs = <<>>

\* The jobs of 2 copies of a file of 5 bytes in blocks of 2 are generated: the
\* last chunk is short.
C21_ShortLastChunk ==
    /\ phase = "gen" /\ gen.done
    /\ gen.step = 2 /\ gen.size = 5 /\ gen.copies = 2
    /\ Len(jobs) = 6

\* The slots of a list without the count of their returns.
Plain(slots) ==
    [n \in 1..Len(slots) |-> [retry |-> slots[n].retry, alloc |-> slots[n].alloc]]

\* The list a slot list becomes when the slot at j is returned: the slot
\* moves to the head with its count one higher while the count is below the
\* limit, and leaves the list otherwise; the others keep their order.
AfterReturn(slots, j) ==
    IF slots[j].retry < DOWNLOAD_RETRY
    THEN <<[retry |-> slots[j].retry + 1, alloc |-> slots[j].alloc]>>
         \o Plain(RemoveAt(slots, j))
    ELSE Plain(RemoveAt(slots, j))

\* The slot list at key offset exists and is not empty.
ExactCase(chunks, offset) ==
    \E i \in 1..Len(chunks) : chunks[i].k = offset /\ chunks[i].slots # <<>>

\* Nothing but the slot list at index i differs between the two schedules.
OnlyKeyChanged(old, new, i) ==
    /\ Len(new) = Len(old)
    /\ \A n \in 1..Len(old) : new[n].k = old[n].k
    /\ \A n \in 1..Len(old) : n # i => new[n].slots = old[n].slots

RetryWithinLimit(chunks) ==
    \A n \in 1..Len(chunks) : \A s \in Range(chunks[n].slots) : s.retry <= DOWNLOAD_RETRY

\* C22: a get at an offset whose slot list is not empty returns the allocation
\* of the tail slot; the slot goes to the head with its count one higher when
\* the count was below DOWNLOAD_RETRY and leaves the list for good otherwise;
\* the other slots keep their order, and no count ever exceeds DOWNLOAD_RETRY.
C22_ExactBookkeeping ==
    [][\A o \in 0..MaxSize :
          (SchedDownloadGet(o) /\ ExactCase(ls, o)) =>
              LET i == CHOOSE n \in 1..Len(ls) : ls[n].k = o
                  old == ls[i].slots
              IN /\ ~sched'.one.err
                 /\ sched'.one.alloc = old[Len(old)].alloc
                 /\ Plain(ls'[i].slots) = AfterReturn(old, Len(old))
                 /\ OnlyKeyChanged(ls, ls', i)
                 /\ RetryWithinLimit(ls')]_vars

\* The last slot of an offset has been returned with its count at the limit:
\* the list of the offset is empty.
C22_SlotRemoved ==
    /\ phase = "sched" /\ sched.mode = "down"
    /\ ~sched.one.err /\ sched.one.alloc.offset = sched.offset
    /\ \E n \in 1..Len(ls) : ls[n].k = sched.offset /\ ls[n].slots = <<>>

\* C23: a get at an offset with no slot left at that offset returns the
\* allocation of a slot under a lower key whose range covers the offset, with
\* the bookkeeping of the exact case applied to that slot, or fails; every
\* allocation a get returns covers the offset asked for.
C23_ScanBookkeeping ==
    [][\A o \in 0..MaxSize :
          SchedDownloadGet(o) =>
              /\ ~sched'.one.err =>
                    /\ sched'.one.alloc.offset <= o
                    /\ o < sched'.one.alloc.offset + sched'.one.alloc.size
              /\ (~ExactCase(ls, o) /\ ~sched'.one.err) =>
                    \E i \in 1..Len(ls) : \E j \in 1..Len(ls[i].slots) :
                        /\ ls[i].k < o
                        /\ ls[i].slots[j].alloc = sched'.one.alloc
                        /\ Plain(ls'[i].slots) = AfterReturn(ls[i].slots, j)
                        /\ OnlyKeyChanged(ls, ls', i)]_vars

\* A get has returned an allocation that starts below the offset asked for.
C23_CoveringSlotReturned ==
    /\ phase = "sched" /\ sched.mode = "down"
    /\ sched.n > 0 /\ ~sched.one.err
    /\ sched.one.alloc.offset < sched.offset

\* The extents of the source at offset o, in the order of the source.
ReplicasAt(extents, o) == SelectSeq(extents, LAMBDA a : a.offset = o)

\* C24: the replicas stored at one offset come out of get in the order in
\* which setSource put them in, the order of the exnode's extents: the first
\* get at an offset returns the first extent listed at that offset.
C24_InsertionOrder ==
    (/\ phase = "sched" /\ sched.mode = "down"
     /\ sched.n = 1 /\ ~sched.one.err
     /\ sched.one.alloc.offset = sched.offset)
        => sched.one.alloc = ReplicasAt(ex.extents, sched.offset)[1]

\* s can be had from t by leaving elements out.
IsSubSeq(s, t) ==
    \E f \in [1..Len(s) -> 1..Len(t)] :
        /\ \A a, b \in 1..Len(s) : a < b => f[a] < f[b]
        /\ \A a \in 1..Len(s) : s[a] = t[f[a]]

\* The allocations of the slots of a list that get has not returned yet, in
\* the order of the list.
Unreturned(slots) ==
    LET fresh == SelectSeq(slots, LAMBDA s : s.gets = 0)
    IN [n \in 1..Len(fresh) |-> fresh[n].alloc]

\* C24, as the code has it: the replicas at one offset that get has not
\* returned yet stand at the tail of the list in the order of the exnode's
\* extents, and a get at that offset returns the last of them: the replicas
\* come out in the reverse of the order in which setSource put them in.
C24_ReverseInsertionOrder ==
    [][\A o \in 0..MaxSize :
          (SchedDownloadGet(o) /\ ExactCase(ls, o)) =>
              LET i == CHOOSE n \in 1..Len(ls) : ls[n].k = o
                  slots == ls[i].slots
                  rest == Unreturned(slots)
              IN /\ IsSubSeq(rest, ReplicasAt(ex.extents, o))
                 /\ rest # <<>> =>
                       /\ slots[Len(slots)].gets = 0
                       /\ sched'.one.alloc = rest[Len(rest)]
                 /\ sched.n = 0 =>
                       sched'.one.alloc =
                           ReplicasAt(ex.extents, o)[Len(ReplicasAt(ex.extents, o))]]_vars

\* Two gets at offset 0 of a source that lists a replica on depot 1, then one
\* on depot 2: the second get returned the replica on depot 1.
C24_SecondListedFirst ==
    /\ phase = "sched" /\ sched.mode = "down" /\ sched.n = 2
    /\ Len(ex.extents) = 2
    /\ ex.extents[1].offset = 0 /\ ex.extents[1].location = 1
    /\ ex.extents[2].offset = 0 /\ ex.extents[2].location = 2
    /\ ex.extents[1].size = ex.extents[2].size
    /\ sched.offset = 0 /\ sched.one.alloc = ex.extents[1]
    /\ \A s \in Range(ls[1].slots) : s.gets = 1

\* C25: when the read of a worker fails or gives no data, for the job
\* (offset, end) and an allocation of range [a_off, a_off + a_size), the
\* worker puts back exactly the job (offset, a_off + a_size) at once, and
\* neither writes nor records anything for that read.
C25_FailedReadRequeue ==
    (Downloading /\ threads > 1) =>
        \A i \in 1..Len(hist.log) :
            hist.log[i].ev = "fail" =>
                LET e == hist.log[i]
                IN /\ i < Len(hist.log)
                   /\ hist.log[i + 1] =
                         Ev("put", e.offset, e.alloc.offset + e.alloc.size, NoAlloc)
                   /\ \A j \in 1..Len(hist.log) :
                         hist.log[j].ev \in {"ok", "write"} =>
                             (hist.log[j].alloc # e.alloc \/ hist.log[j].offset # e.offset)

\* C26: in the loop of a download with one thread, after every successful
\* write every byte of [0, offset) of the file has been written; the offset
\* never decreases, a failed or empty read leaves it as it is, and the loop
\* goes on while offset < ex.size and the schedule gives an allocation.
C26_LinearLoop ==
    /\ phase = "download1" =>
          \A i \in 0..(ex.size - 1) : i < offset1 => dest[i] = FileByte(i)
    /\ \A i, j \in 1..Len(hist.log) :
          (phase = "download1" /\ i < j /\ hist.log[i].ev = "get" /\ hist.log[j].ev = "get")
              => /\ hist.log[i].offset <= hist.log[j].offset
                 /\ hist.log[i].offset < ex.size

\* C27: whenever an upload or a download call on a file that is not empty has
\* returned, with a result or without one, the job queue of the session is
\* empty.
C27_QueueEmptyAfterReturn ==
    (/\ phase = "idle" /\ fsize > 0
     /\ result.kind \in {"UploadResult", "DownloadResult", "None"})
        => jobs = <<>>

\* C28: every download call returns in the end, with one thread and with
\* more, whatever reads fail or give no data, also when every read does so
\* without end.
C28_DownloadReturns == Downloading ~> (phase = "idle")

\* A download in which every read failed has returned: a slot was returned
\* until its count was used up and nothing was written.
C28_ReturnedAfterFailures ==
    /\ DownloadReturned
    /\ result.bytes = 0 /\ result.ex.size > 0
    /\ hist.maxGets = DOWNLOAD_RETRY + 1

\* Byte i lies in the job (offset, end).
InJob(i, job) == job.offset <= i /\ i < job.size

\* C29: in the download of an exnode whose extents cover the file, whatever
\* their layout, with every read succeeding, every byte of the file is
\* written, or lies in a queued job, or lies in the job a worker holds (with
\* one thread: or lies at or after the offset of the loop); when download has
\* returned every byte of the file is written.
C29_Complete ==
    /\ phase = "download" =>
          \A i \in 0..(ex.size - 1) :
              \/ dest[i] = FileByte(i)
              \/ \E n \in 1..Len(jobs) : InJob(i, jobs[n])
              \/ \E w \in 1..threads : wk[w].pc \in {"read", "write"} /\ InJob(i, wk[w].job)
    /\ phase = "download1" =>
          \A i \in 0..(ex.size - 1) : dest[i] = FileByte(i) \/ offset1 <= i
    /\ DownloadReturned =>
          \A i \in 0..(result.ex.size - 1) : dest[i] = FileByte(i)

=============================================================================
